---- MODULE Spec2Model ----
(***************************************************************************)
(* og_image_writer: text fragments (SplitText), per-character font         *)
(* resolution into glyph runs (SplitText::set_glyphs), the TextArea        *)
(* operations of layout/textarea.rs, and the painter of writer.rs.         *)
(***************************************************************************)
EXTENDS Integers, Sequences, FiniteSets, TLC

(***************************************************************************)
(* Bounds of the model.                                                    *)
(***************************************************************************)
\* most characters in one paragraph (all fragments of a TextArea together)
MaxChars == 2
\* most fragments in one TextArea
MaxFrags == 2
\* most runs of TextArea::set_glyphs on one TextArea
MaxResolve == 2

(***************************************************************************)
(* Characters.  A text is a sequence of characters; a character occupies   *)
(* ch.to_string().len() bytes of the paragraph (1 to 4 in UTF-8).          *)
(***************************************************************************)
Chars == {"a", "x", "e", "z"}

\* ch.to_string().len()
CharLen(ch) ==
    CASE ch = "a" -> 1
      [] ch = "x" -> 2
      [] ch = "z" -> 3
      [] ch = "e" -> 4

RECURSIVE TextsUpTo(_)
TextsUpTo(n) ==
    IF n = 0 THEN {<< >>}
    ELSE LET shorter == TextsUpTo(n - 1)
         IN  shorter \cup {Append(t, c) : t \in shorter, c \in Chars}

\* str::len(): the byte length of a text
RECURSIVE StrLen(_)
StrLen(text) ==
    IF text = << >> THEN 0 ELSE CharLen(Head(text)) + StrLen(Tail(text))

\* the bytes of a text: byte k of character ch is <<ch, k>>
RECURSIVE Bytes(_)
Bytes(text) ==
    IF text = << >> THEN << >>
    ELSE [k \in 1..CharLen(Head(text)) |-> <<Head(text), k>>] \o Bytes(Tail(text))

\* str::char_indices(): the byte offset at which character number n starts
RECURSIVE CharOffset(_, _)
CharOffset(text, n) ==
    IF n <= 1 THEN 0 ELSE CharOffset(text, n - 1) + CharLen(text[n - 1])

(***************************************************************************)
(* Fonts.  A font is known by the characters it has a glyph for.           *)
(* "parent" is the text element's font, "child" the font parsed from the   *)
(* bytes given to push, "g1" and "g2" the fallback fonts of FontContext.   *)
(***************************************************************************)
Coverage(font) ==
    CASE font = "parent" -> {"a"}
      [] font = "child"  -> {"a", "x"}
      [] font = "g1"     -> {"a", "x"}
      [] font = "g2"     -> {"e", "x"}
      [] OTHER           -> {}

\* font::match_font_family
match_font_family(ch, font) == ch \in Coverage(font)

\* the fallback fonts of the FontContext, by handle
GlobalFont(idx) == IF idx = 1 THEN "g1" ELSE "g2"
Handles == {1, 2}

\* FontContext::select_font_family: the first fallback that has the character
select_font_family(ch) ==
    IF \E h \in Handles : match_font_family(ch, GlobalFont(h))
    THEN [err |-> "Ok",
          idx |-> CHOOSE h \in Handles :
                     /\ match_font_family(ch, GlobalFont(h))
                     /\ \A g \in Handles :
                           match_font_family(ch, GlobalFont(g)) => h <= g]
    ELSE [err |-> "NoMatchingFontFamily", idx |-> 0]

\* Font::try_from_vec on the bytes given to push
try_from_vec(bytes) == IF bytes = "valid" THEN "child" ELSE "none"

(***************************************************************************)
(* FontIndexStore, Glyph, SplitText.                                       *)
(***************************************************************************)
None == [kind |-> "None", idx |-> 0]
Child(i) == [kind |-> "Child", idx |-> i]
Parent(i) == [kind |-> "Parent", idx |-> i]
Global(h) == [kind |-> "Global", idx |-> h]

Range(s, e) == [start |-> s, end |-> e]

\* Glyph::new
Glyph(range, store) == [range |-> range, font_index_store |-> store]

\* struct SplitText
SplitText(text, style, font, range, glyphs) ==
    [text |-> text, style |-> style, font |-> font, range |-> range,
     glyphs |-> glyphs]

(***************************************************************************)
(* SplitText::set_glyphs.                                                  *)
(***************************************************************************)
\* FontIndexStoreOf with the parent font tried before the child font
FontIndexStoreOf_ParentFirst(ch, child_font, parent_font) ==
    LET has_parent_font == match_font_family(ch, parent_font)
        has_child_font == IF child_font # "none"
                          THEN match_font_family(ch, child_font)
                          ELSE FALSE
    IN  IF has_parent_font THEN [err |-> "Ok", store |-> Parent(0)]
        ELSE IF has_child_font THEN [err |-> "Ok", store |-> Child(0)]
        ELSE LET sel == select_font_family(ch)
             IN  IF sel.err = "Ok"
                 THEN [err |-> "Ok", store |-> Global(sel.idx)]
                 ELSE [err |-> sel.err, store |-> None]

\* FontIndexStoreOf with the resolver's error swallowed: the character is
\* given to the parent font
FontIndexStoreOf_Placeholder(ch, child_font, parent_font) ==
    LET has_parent_font == match_font_family(ch, parent_font)
        has_child_font == IF child_font # "none"
                          THEN match_font_family(ch, child_font)
                          ELSE FALSE
    IN  IF has_child_font THEN [err |-> "Ok", store |-> Child(0)]
        ELSE IF has_parent_font THEN [err |-> "Ok", store |-> Parent(0)]
        ELSE LET sel == select_font_family(ch)
             IN  IF sel.err = "Ok"
                 THEN [err |-> "Ok", store |-> Global(sel.idx)]
                 ELSE [err |-> "Ok", store |-> Parent(0)]

\* FontIndexStoreOf that, for a fragment without font, takes the parent
\* font as the child font
FontIndexStoreOf_ChildWithoutFont(ch, child_font, parent_font) ==
    LET has_parent_font == match_font_family(ch, parent_font)
        has_child_font == IF child_font # "none"
                          THEN match_font_family(ch, child_font)
                          ELSE match_font_family(ch, parent_font)
    IN  IF has_child_font THEN [err |-> "Ok", store |-> Child(0)]
        ELSE IF has_parent_font THEN [err |-> "Ok", store |-> Parent(0)]
        ELSE LET sel == select_font_family(ch)
             IN  IF sel.err = "Ok"
                 THEN [err |-> "Ok", store |-> Global(sel.idx)]
                 ELSE [err |-> sel.err, store |-> None]

\* the FontIndexStore chosen for one character, or the resolver's error
FontIndexStoreOf(ch, child_font, parent_font) ==
    LET has_parent_font == match_font_family(ch, parent_font)
        has_child_font == IF child_font # "none"
                          THEN match_font_family(ch, child_font)
                          ELSE FALSE
    IN  IF has_child_font THEN [err |-> "Ok", store |-> Child(0)]
        ELSE IF has_parent_font THEN [err |-> "Ok", store |-> Parent(0)]
        ELSE LET sel == select_font_family(ch)
             IN  IF sel.err = "Ok"
                 THEN [err |-> "Ok", store |-> Global(sel.idx)]
                 ELSE [err |-> sel.err, store |-> None]

\* CompareStore that finds every character after the first different
CompareStore_NeverEqual(st, cur) ==
    IF st.prev # None
    THEN [st EXCEPT !.equal = FALSE]
    ELSE [st EXCEPT !.prev = cur, !.equal = TRUE]

\* CompareStore whose first character records nothing and counts as different
CompareStore_FirstUnequal(st, cur) ==
    IF st.prev # None
    THEN [st EXCEPT !.equal = (cur = st.prev)]
    ELSE [st EXCEPT !.equal = FALSE]

\* the comparison of the character's store with the previous one; a first
\* character records its store as the previous one and counts as equal
CompareStore(st, cur) ==
    IF st.prev # None
    THEN [st EXCEPT !.equal = (cur = st.prev)]
    ELSE [st EXCEPT !.prev = cur, !.equal = TRUE]

\* CloseRun without `*current_range_start = current_range_end`
CloseRun_NoAdvance(st, cur) ==
    IF st.prev = None
    THEN [st EXCEPT !.err = "NotFoundSpecifiedFontFamily"]
    ELSE [st EXCEPT !.glyphs = Append(@, Glyph(Range(st.start, st.end), st.prev)),
                    !.prev = cur]

\* the body of `if !is_equal_font_index_store`: close the open run
CloseRun(st, cur) ==
    IF st.prev = None
    THEN [st EXCEPT !.err = "NotFoundSpecifiedFontFamily"]
    ELSE [st EXCEPT !.glyphs = Append(@, Glyph(Range(st.start, st.end), st.prev)),
                    !.prev = cur,
                    !.start = st.end]

\* one turn of the loop over text.char_indices()
LoopStep(st, ch, child_font, parent_font) ==
    LET fis == FontIndexStoreOf(ch, child_font, parent_font)
    IN  IF fis.err # "Ok" THEN [st EXCEPT !.err = fis.err]
        ELSE LET cmp == CompareStore(st, fis.store)
                 closed == IF cmp.equal THEN cmp ELSE CloseRun(cmp, fis.store)
             IN  IF closed.err # "Ok" THEN closed
                 ELSE [closed EXCEPT !.end = @ + CharLen(ch)]

RECURSIVE Loop(_, _, _, _)
Loop(st, text, child_font, parent_font) ==
    IF text = << >> \/ st.err # "Ok" THEN st
    ELSE CHOOSE out \in {Loop(next, Tail(text), child_font, parent_font) :
                             next \in {LoopStep(st, Head(text), child_font,
                                                parent_font)}} : TRUE

\* Finish that replaces self.glyphs by the new runs
Finish_Replace(self, st) ==
    IF st.prev = None
    THEN [err |-> "Ok",
          self |-> [self EXCEPT !.glyphs = st.glyphs],
          current_range_start |-> st.end]
    ELSE [err |-> "Ok",
          self |-> [self EXCEPT !.glyphs =
                      Append(st.glyphs, Glyph(Range(st.start, st.end), st.prev))],
          current_range_start |-> st.end]

\* what follows the loop: close the last run and append the runs to self.glyphs
Finish(self, st) ==
    IF st.prev = None
    THEN [err |-> "Ok",
          self |-> [self EXCEPT !.glyphs = @ \o st.glyphs],
          current_range_start |-> st.end]
    ELSE [err |-> "Ok",
          self |-> [self EXCEPT !.glyphs =
                      @ \o Append(st.glyphs,
                                  Glyph(Range(st.start, st.end), st.prev))],
          current_range_start |-> st.end]

\* SplitText::set_glyphs that, when it fails, appends the runs it has
\* collected and the open one to self.glyphs
SplitText_set_glyphs_KeepPartial(self, parent_font, current_range_start) ==
    LET st0 == [glyphs |-> << >>, start |-> current_range_start,
                end |-> current_range_start, prev |-> None,
                equal |-> TRUE, err |-> "Ok"]
    IN  CHOOSE out \in
            {IF st.err # "Ok"
             THEN [err |-> st.err, self |-> Finish(self, st).self,
                   current_range_start |-> st.start]
             ELSE Finish(self, st) :
                st \in {Loop(st0, self.text, self.font, parent_font)}} : TRUE

\* SplitText::set_glyphs(&mut self, parent_font, &mut current_range_start, ..)
SplitText_set_glyphs(self, parent_font, current_range_start) ==
    LET st0 == [glyphs |-> << >>, start |-> current_range_start,
                end |-> current_range_start, prev |-> None,
                equal |-> TRUE, err |-> "Ok"]
    IN  CHOOSE out \in
            {IF st.err # "Ok"
             THEN [err |-> st.err, self |-> self, current_range_start |-> st.start]
             ELSE Finish(self, st) :
                st \in {Loop(st0, self.text, self.font, parent_font)}} : TRUE

\* SplitText::get_glyphs_from_char_range: the index of the first run that
\* contains the range, 0 for None
SplitText_get_glyphs_from_char_range(self, range) ==
    LET hits == {g \in 1..Len(self.glyphs) :
                    /\ self.glyphs[g].range.start <= range.start
                    /\ range.end <= self.glyphs[g].range.end}
    IN  IF hits = {} THEN 0 ELSE CHOOSE g \in hits : \A h \in hits : g <= h

(***************************************************************************)
(* TextArea.                                                               *)
(***************************************************************************)
\* `match self.0.iter().last()`
LastRangeEnd(ta) == IF Len(ta) = 0 THEN 0 ELSE ta[Len(ta)].range.end

\* TextArea::push with the range advanced by the number of characters
TextArea_push_CharCount(ta, text, style, font) ==
    LET last_range_end == LastRangeEnd(ta)
    IN  IF font # "none" /\ try_from_vec(font) = "none"
        THEN [err |-> "InvalidFontBytes", ta |-> ta]
        ELSE [err |-> "Ok",
              ta |-> Append(ta,
                        SplitText(text, style,
                                  IF font = "none" THEN "none" ELSE try_from_vec(font),
                                  Range(last_range_end, last_range_end + Len(text)),
                                  << >>))]

\* TextArea::push
TextArea_push(ta, text, style, font) ==
    LET last_range_end == LastRangeEnd(ta)
    IN  IF font # "none" /\ try_from_vec(font) = "none"
        THEN [err |-> "InvalidFontBytes", ta |-> ta]
        ELSE [err |-> "Ok",
              ta |-> Append(ta,
                        SplitText(text, style,
                                  IF font = "none" THEN "none" ELSE try_from_vec(font),
                                  Range(last_range_end, last_range_end + StrLen(text)),
                                  << >>))]

\* TextArea::push_text
TextArea_push_text(ta, text) ==
    LET last_range_end == LastRangeEnd(ta)
    IN  Append(ta, SplitText(text, "none", "none",
                             Range(last_range_end, last_range_end + StrLen(text)),
                             << >>))

\* push_text_with_glyphs that appends the fragment also when its resolution
\* fails
TextArea_push_text_with_glyphs_AppendOnError(ta, text, font) ==
    LET last_range_end == LastRangeEnd(ta)
        split_text == SplitText(text, "none", "none",
                                Range(last_range_end, last_range_end + StrLen(text)),
                                << >>)
        res == SplitText_set_glyphs(split_text, font, last_range_end)
    IN  [err |-> res.err, ta |-> Append(ta, res.self)]

\* TextArea::push_text_with_glyphs
TextArea_push_text_with_glyphs(ta, text, font) ==
    LET last_range_end == LastRangeEnd(ta)
        split_text == SplitText(text, "none", "none",
                                Range(last_range_end, last_range_end + StrLen(text)),
                                << >>)
        res == SplitText_set_glyphs(split_text, font, last_range_end)
    IN  IF res.err # "Ok" THEN [err |-> res.err, ta |-> ta]
        ELSE [err |-> "Ok", ta |-> Append(ta, res.self)]

\* TextArea::as_string
RECURSIVE TextArea_as_string(_)
TextArea_as_string(ta) ==
    IF ta = << >> THEN << >> ELSE Head(ta).text \o TextArea_as_string(Tail(ta))

\* TextArea::get_glyphs_from_char_range that stops at the first fragment
TextArea_get_glyphs_from_char_range_FirstOnly(ta, range) ==
    IF Len(ta) = 0 \/ SplitText_get_glyphs_from_char_range(ta[1], range) = 0
    THEN [split |-> 0, glyph |-> 0]
    ELSE [split |-> 1,
          glyph |-> SplitText_get_glyphs_from_char_range(ta[1], range)]

\* TextArea::get_glyphs_from_char_range: (fragment index, run index), 0 for None
TextArea_get_glyphs_from_char_range(ta, range) ==
    LET hits == {i \in 1..Len(ta) :
                    SplitText_get_glyphs_from_char_range(ta[i], range) # 0}
    IN  IF hits = {} THEN [split |-> 0, glyph |-> 0]
        ELSE LET i == CHOOSE i \in hits : \A j \in hits : i <= j
             IN  [split |-> i,
                  glyph |-> SplitText_get_glyphs_from_char_range(ta[i], range)]

\* the loop of TextArea::set_glyphs from fragment i on; `done` counts the
\* fragments whose set_glyphs returned Ok; a fragment whose set_glyphs
\* failed stays as that call left it
RECURSIVE SetGlyphsFrom(_, _, _, _)
SetGlyphsFrom(ta, i, parent_font, current_range_start) ==
    IF i > Len(ta) THEN [err |-> "Ok", ta |-> ta, done |-> Len(ta)]
    ELSE CHOOSE out \in
            {IF res.err # "Ok"
             THEN [err |-> res.err, ta |-> [ta EXCEPT ![i] = res.self],
                   done |-> i - 1]
             ELSE SetGlyphsFrom([ta EXCEPT ![i] = res.self], i + 1, parent_font,
                                res.current_range_start) :
                res \in {SplitText_set_glyphs(ta[i], parent_font,
                                              current_range_start)}} : TRUE

\* TextArea::set_glyphs
TextArea_set_glyphs(ta, parent_font) == SetGlyphsFrom(ta, 1, parent_font, 0)

(***************************************************************************)
(* Styles and measuring.                                                   *)
(***************************************************************************)
\* the style given to push ("s1") and the text element's style ("default")
Styles == {"s1"}
FontSize(style) == IF style = "s1" THEN 2 ELSE 1
Color(style) == IF style = "s1" THEN "red" ELSE "black"

\* Context::char_extents: the metrics of one character in a font at a size
context_char_extents(ch, font_size, font) ==
    [err |-> "Ok", ch |-> ch, font_size |-> font_size, font |-> font]

ExtentsErr(e) == [err |-> e, ch |-> "", font_size |-> 0, font |-> "none"]

\* char_extents that always takes the font size of the supplied style
TextArea_char_extents_DefaultSize(ta, ch, parent_font, range, style) ==
    LET hit == TextArea_get_glyphs_from_char_range(ta, range)
    IN  IF hit.split = 0 \/ hit.glyph = 0 THEN ExtentsErr("OutOfRangeText")
        ELSE LET split_text == ta[hit.split]
                 glyph == split_text.glyphs[hit.glyph]
                 font_size == FontSize(style)
             IN  CASE glyph.font_index_store.kind = "Global" ->
                        context_char_extents(ch, font_size,
                                             GlobalFont(glyph.font_index_store.idx))
                   [] glyph.font_index_store.kind = "Parent" ->
                        context_char_extents(ch, font_size, parent_font)
                   [] OTHER ->
                        IF split_text.font # "none"
                        THEN context_char_extents(ch, font_size, split_text.font)
                        ELSE ExtentsErr("NotFoundSpecifiedFontFamily")

\* TextArea::char_extents
TextArea_char_extents(ta, ch, parent_font, range, style) ==
    LET hit == TextArea_get_glyphs_from_char_range(ta, range)
    IN  IF hit.split = 0 \/ hit.glyph = 0 THEN ExtentsErr("OutOfRangeText")
        ELSE LET split_text == ta[hit.split]
                 glyph == split_text.glyphs[hit.glyph]
                 font_size == IF split_text.style # "none"
                              THEN FontSize(split_text.style)
                              ELSE FontSize(style)
             IN  CASE glyph.font_index_store.kind = "Global" ->
                        context_char_extents(ch, font_size,
                                             GlobalFont(glyph.font_index_store.idx))
                   [] glyph.font_index_store.kind = "Parent" ->
                        context_char_extents(ch, font_size, parent_font)
                   [] OTHER ->
                        IF split_text.font # "none"
                        THEN context_char_extents(ch, font_size, split_text.font)
                        ELSE ExtentsErr("NotFoundSpecifiedFontFamily")

\* the byte offsets at which the characters of a text start and end
Boundaries(text) == {CharOffset(text, n) : n \in 1..(Len(text) + 1)}

(***************************************************************************)
(* The drawing context and the Text element of writer.rs.                  *)
(***************************************************************************)
\* MaxLines: most lines of a text element; MaxElems: most elements of a tree
MaxLines == 2
MaxElems == 2

\* Context::text_extents(..).width
text_extents_width(text, font_size, font) ==
    Len(text) * font_size * (IF font = "child" THEN 2 ELSE 1)

\* one call of Context::draw_text or Context::draw_image, as the context
\* receives it; `line`, `from` and `to` note the line and the paragraph bytes
\* the call was made for
DrawCall(kind, color, x, y, font_size, font, text, ok, line, from, to) ==
    [kind |-> kind, color |-> color, x |-> x, y |-> y, font_size |-> font_size,
     font |-> font, text |-> text, ok |-> ok, line |-> line, from |-> from,
     to |-> to]

\* TextArea::get_split_text_from_char_range: the index of the first fragment
\* whose range contains the range, 0 for None
TextArea_get_split_text_from_char_range(ta, range) ==
    LET hits == {i \in 1..Len(ta) :
                    /\ ta[i].range.start <= range.start
                    /\ range.end <= ta[i].range.end}
    IN  IF hits = {} THEN 0 ELSE CHOOSE i \in hits : \A j \in hits : i <= j

\* &text[range] for a byte range that lies on character boundaries
Slice(text, range) ==
    LET idx == {n \in 1..Len(text) :
                   /\ range.start <= CharOffset(text, n)
                   /\ CharOffset(text, n + 1) <= range.end}
    IN  IF idx = {} THEN << >>
        ELSE LET first == CHOOSE n \in idx : \A m \in idx : n <= m
             IN  [k \in 1..Cardinality(idx) |-> text[first + k - 1]]

\* StyleAndFont that takes the element's style whatever the fragment's
StyleAndFont_ElementStyle(elm, current) ==
    IF current # 0
    THEN [style |-> elm.style,
          font |-> IF elm.textarea[current].font # "none"
                   THEN elm.textarea[current].font ELSE elm.font]
    ELSE [style |-> elm.style, font |-> elm.font]

\* the (style, font) a pending text is drawn with
StyleAndFont(elm, current) ==
    IF current # 0
    THEN [style |-> IF elm.textarea[current].style # "none"
                    THEN elm.textarea[current].style ELSE elm.style,
          font |-> IF elm.textarea[current].font # "none"
                   THEN elm.textarea[current].font ELSE elm.font]
    ELSE [style |-> elm.style, font |-> elm.font]

\* self.context.draw_text(..)?: the call is made, and fails when it is the
\* call number ps.fail_at of this paint_text
DrawPending(elm, k, ps) ==
    LET line == elm.lines[k]
        sf == StyleAndFont(elm, ps.current)
        next_text == Slice(Slice(elm.text, line.range), ps.range)
        ok == Len(ps.calls) + 1 # ps.fail_at
    IN  [ps EXCEPT
           !.calls = Append(@, DrawCall("text", Color(sf.style),
                                        line.rect.x + ps.current_width, line.rect.y,
                                        FontSize(sf.style), sf.font, next_text, ok, k,
                                        line.range.start + ps.range.start,
                                        line.range.start + ps.range.end)),
           !.err = IF ok THEN "Ok" ELSE "DrawError"]

\* `contained`; a character found while no fragment is current makes its
\* fragment the current one
Contained(elm, ps, split_text) ==
    IF split_text # 0
    THEN IF ps.current # 0
         THEN [ps EXCEPT !.contained =
                  /\ elm.textarea[split_text].range.start
                        >= elm.textarea[ps.current].range.start
                  /\ elm.textarea[split_text].range.end
                        <= elm.textarea[ps.current].range.end]
         ELSE [ps EXCEPT !.current = split_text, !.contained = TRUE]
    ELSE [ps EXCEPT !.contained = FALSE]

\* NotContained that measures the drawn text with the element's font
NotContained_ElementFont(elm, k, ps, split_text) ==
    LET drawn == DrawPending(elm, k, ps)
        sf == StyleAndFont(elm, ps.current)
        next_text == Slice(Slice(elm.text, elm.lines[k].range), ps.range)
    IN  IF drawn.err # "Ok" THEN drawn
        ELSE [drawn EXCEPT
                !.range = Range(ps.range.end, ps.range.end),
                !.current_width = @ + text_extents_width(next_text,
                                                         FontSize(sf.style), elm.font),
                !.current = split_text]

\* the body of `if !contained`
NotContained(elm, k, ps, split_text) ==
    LET drawn == DrawPending(elm, k, ps)
        sf == StyleAndFont(elm, ps.current)
        next_text == Slice(Slice(elm.text, elm.lines[k].range), ps.range)
    IN  IF drawn.err # "Ok" THEN drawn
        ELSE [drawn EXCEPT
                !.range = Range(ps.range.end, ps.range.end),
                !.current_width = @ + text_extents_width(next_text,
                                                         FontSize(sf.style), sf.font),
                !.current = split_text]

\* one turn of the loop over text.char_indices() of line k: character n
PaintChar(elm, k, ps, n) ==
    LET line == elm.lines[k]
        text == Slice(elm.text, line.range)
        i == CharOffset(text, n)
        ch_len == CharLen(text[n])
        split_text == TextArea_get_split_text_from_char_range(elm.textarea,
                         Range(line.range.start + i, line.range.start + i + ch_len))
    IN  CHOOSE out \in
            {IF d.err # "Ok" THEN d
             ELSE [d EXCEPT !.range = Range(d.range.start, i + ch_len)] :
                d \in {IF c.contained THEN c
                       ELSE NotContained(elm, k, c, split_text) :
                          c \in {Contained(elm, ps, split_text)}}} : TRUE

RECURSIVE PaintChars(_, _, _, _)
PaintChars(elm, k, ps, n) ==
    IF ps.err # "Ok" \/ n > Len(Slice(elm.text, elm.lines[k].range)) THEN ps
    ELSE CHOOSE out \in {PaintChars(elm, k, next, n + 1) :
                             next \in {PaintChar(elm, k, ps, n)}} : TRUE

\* Flush that leaves the pending text undrawn
Flush_Skip(elm, k, ps) == ps

\* the flush after the characters of a line
Flush(elm, k, ps) ==
    IF ps.range.start < ps.range.end THEN DrawPending(elm, k, ps) ELSE ps

\* one turn of `for line in &text_elm.lines`
PaintLine(elm, k, ps) ==
    LET start == [ps EXCEPT !.range = Range(0, 0), !.current_width = 0]
    IN  CHOOSE out \in {IF after.err # "Ok" THEN after ELSE Flush(elm, k, after) :
                            after \in {PaintChars(elm, k, start, 1)}} : TRUE

RECURSIVE PaintLines(_, _, _)
PaintLines(elm, k, ps) ==
    IF ps.err # "Ok" \/ k > Len(elm.lines) THEN ps
    ELSE CHOOSE out \in {PaintLines(elm, k + 1, next) :
                             next \in {PaintLine(elm, k, ps)}} : TRUE

\* OGImageWriter::paint_text; the draw call number fail_at fails (0: none)
paint_text(elm, fail_at) ==
    CHOOSE out \in
        {[err |-> ps.err, calls |-> ps.calls] :
            ps \in {PaintLines(elm, 1,
                       [calls |-> << >>, err |-> "Ok", current |-> 0,
                        range |-> Range(0, 0), current_width |-> 0,
                        contained |-> TRUE, fail_at |-> fail_at])}} : TRUE

\* OGImageWriter::paint_img
paint_img(img, fail_at) ==
    [err |-> IF fail_at = 1 THEN "DrawError" ELSE "Ok",
     calls |-> <<DrawCall("image", "", img.rect.x, img.rect.y, 0, "none", << >>,
                          fail_at # 1, 0, 0, 0)>>]

\* the arms of the match in OGImageWriter::paint
PaintElement(e, fail_at) ==
    IF e.kind = "Img" /\ e.some THEN paint_img(e.img, fail_at)
    ELSE IF e.kind = "Text" /\ e.some THEN paint_text(e.text, fail_at)
    ELSE [err |-> "NullElement", calls |-> << >>]

\* AfterPaint without the `?`: the loop goes on after an error
AfterPaint_IgnoreError(e, rest) ==
    IF rest = << >> THEN "save" ELSE "paint"

\* where OGImageWriter::generate stands after one turn of the loop of paint:
\* an error returns at once, an empty tree ends paint and lets generate save
AfterPaint(e, rest) ==
    IF e # "Ok" THEN "done"
    ELSE IF rest = << >> THEN "save" ELSE "paint"

\* struct Text and the elements of the tree
Rect(x, y) == [x |-> x, y |-> y]
Line(range, k) == [range |-> range, rect |-> Rect(10 * k, k)]
Text(text, lines, textarea) ==
    [text |-> text, lines |-> lines, textarea |-> textarea,
     style |-> "default", font |-> "parent"]
NoText == Text(<< >>, << >>, << >>)
NoImg == [rect |-> Rect(0, 0)]
TextElement(t) == [kind |-> "Text", some |-> TRUE, text |-> t, img |-> NoImg]
ImgElement(i) == [kind |-> "Img", some |-> TRUE, text |-> NoText, img |-> i]
NullElement == [kind |-> "Img", some |-> FALSE, text |-> NoText, img |-> NoImg]

\* the lines a layout of at most n lines may cut a text into from byte
\* `from` on, numbered from k: contiguous, on character boundaries, to the end
RECURSIVE LinesFrom(_, _, _, _)
LinesFrom(text, from, k, n) ==
    IF n = 1 THEN {<<Line(Range(from, StrLen(text)), k)>>}
    ELSE {<<Line(Range(from, StrLen(text)), k)>>}
         \cup UNION {{<<Line(Range(from, cut), k)>> \o rest :
                         rest \in LinesFrom(text, cut, k + 1, n - 1)} :
                     cut \in {c \in Boundaries(text) : c >= from}}

(***************************************************************************)
(* State.                                                                  *)
(***************************************************************************)
VARIABLES
    textarea,   \* the TextArea: a sequence of SplitText
    err,        \* the result of the last operation
    last,       \* the last operation
    resolved,   \* per fragment, the number of successful set_glyphs on it
    appended,   \* the texts of the successful appends, concatenated
    measured,   \* the last char_extents call: its range and its result
    tree,       \* OGImageWriter::tree: the elements still to paint
    calls,      \* the draw calls the context has received, in order
    text_elm,   \* the Text element paint_text was last called with
    pc,         \* where generate stands: "build", "paint", "save", "done"
    saved       \* whether generate has called context.save

vars == <<textarea, err, last, resolved, appended, measured,
          tree, calls, text_elm, pc, saved>>

areaVars == <<textarea, resolved, appended, measured>>
writerVars == <<tree, calls, text_elm, pc, saved>>

RECURSIVE CharCount(_)
CharCount(ta) == IF ta = << >> THEN 0 ELSE Len(Head(ta).text) + CharCount(Tail(ta))

\* the texts of at most MaxChars characters
AllTexts == TextsUpTo(MaxChars)

\* the texts over some characters that an append may still add
Room(chars) ==
    LET used == CharCount(textarea)
    IN  {t \in AllTexts :
            /\ Len(t) + used <= MaxChars
            /\ \A n \in 1..Len(t) : t[n] \in chars}

NoCall == [range |-> Range(0, 0), res |-> ExtentsErr("none")]

\* the ranges char_extents is asked for: between character boundaries of the
\* paragraph and up to one byte past its end
AskedRanges(ta) ==
    LET text == TextArea_as_string(ta)
        pts == Boundaries(text) \cup {StrLen(text) + 1}
    IN  {r \in {Range(s, e) : s \in pts, e \in pts} : r.start < r.end}

Init ==
    /\ textarea = << >>
    /\ err = "Ok"
    /\ last = "new"
    /\ resolved = << >>
    /\ appended = << >>
    /\ measured = NoCall
    /\ tree = << >>
    /\ calls = << >>
    /\ text_elm = NoText
    /\ pc = "build"
    /\ saved = FALSE

\* a call of push with a text over `chars` and font bytes among `fonts`
PushOf(chars, fonts) ==
    /\ Len(textarea) < MaxFrags
    /\ \E text \in Room(chars), style \in Styles, font \in fonts :
          LET r == TextArea_push(textarea, text, style, font)
          IN  /\ textarea' = r.ta
              /\ err' = r.err
              /\ resolved' = IF r.err = "Ok" THEN Append(resolved, 0) ELSE resolved
              /\ appended' = IF r.err = "Ok" THEN appended \o text ELSE appended
    /\ last' = "push"
    /\ measured' = NoCall
    /\ UNCHANGED writerVars

\* a call of push_text with a text over `chars`
PushTextOf(chars) ==
    /\ Len(textarea) < MaxFrags
    /\ \E text \in Room(chars) :
          /\ textarea' = TextArea_push_text(textarea, text)
          /\ appended' = appended \o text
    /\ err' = "Ok"
    /\ resolved' = Append(resolved, 0)
    /\ last' = "push_text"
    /\ measured' = NoCall
    /\ UNCHANGED writerVars

\* a call of push_text_with_glyphs with a text over `chars`
PushTextWithGlyphsOf(chars) ==
    /\ Len(textarea) < MaxFrags
    /\ \E text \in Room(chars) :
          LET r == TextArea_push_text_with_glyphs(textarea, text, "parent")
          IN  /\ textarea' = r.ta
              /\ err' = r.err
              /\ resolved' = IF r.err = "Ok" THEN Append(resolved, 1) ELSE resolved
              /\ appended' = IF r.err = "Ok" THEN appended \o text ELSE appended
    /\ last' = "push_text_with_glyphs"
    /\ measured' = NoCall
    /\ UNCHANGED writerVars

\* a call of TextArea::set_glyphs
SetGlyphsCall ==
    /\ \E r \in {TextArea_set_glyphs(textarea, "parent")} :
           /\ textarea' = r.ta
           /\ err' = r.err
           /\ resolved' = [i \in 1..Len(resolved) |->
                             IF i <= r.done THEN resolved[i] + 1 ELSE resolved[i]]
    /\ last' = "set_glyphs"
    /\ measured' = NoCall
    /\ UNCHANGED <<appended, writerVars>>

(***************************************************************************)
(* Spec: appends and resolutions in any order.  A push without font bytes  *)
(* resolves like a push_text (set_glyphs does not read the style), so the  *)
(* pushes of this specification all carry font bytes.                      *)
(***************************************************************************)
Push == PushOf(Chars, {"valid", "invalid"})

PushText == PushTextOf(Chars)

PushTextWithGlyphs == PushTextWithGlyphsOf(Chars)

SetGlyphs ==
    /\ \A i \in 1..Len(resolved) : resolved[i] < MaxResolve
    /\ SetGlyphsCall

Next == Push \/ PushText \/ PushTextWithGlyphs \/ SetGlyphs

Spec == Init /\ [][Next]_vars

(***************************************************************************)
(* LookupSpec: a TextArea is built by push and push_text, resolved once,   *)
(* and then asked for the extents of a range.                              *)
(***************************************************************************)
LookupChars == {"a", "x", "e"}

LPush ==
    /\ \A i \in 1..Len(resolved) : resolved[i] = 0
    /\ PushOf(LookupChars, {"none", "valid"})

LPushText ==
    /\ \A i \in 1..Len(resolved) : resolved[i] = 0
    /\ PushTextOf(LookupChars)

LSetGlyphs ==
    /\ last \in {"new", "push", "push_text"}
    /\ SetGlyphsCall

\* the character a caller measures over a range: the one that starts there
CharAt(text, s) ==
    IF \E n \in 1..Len(text) : CharOffset(text, n) = s
    THEN text[CHOOSE n \in 1..Len(text) : CharOffset(text, n) = s]
    ELSE "a"

\* a char_extents call on the resolved TextArea
CharExtents ==
    /\ last = "set_glyphs"
    /\ \E range \in AskedRanges(textarea) :
          LET res == TextArea_char_extents(textarea,
                        CharAt(TextArea_as_string(textarea), range.start),
                        "parent", range, "default")
          IN  /\ measured' = [range |-> range, res |-> res]
              /\ err' = res.err
    /\ last' = "char_extents"
    /\ UNCHANGED <<textarea, resolved, appended, writerVars>>

LookupNext == LPush \/ LPushText \/ LSetGlyphs \/ CharExtents

LookupSpec == Init /\ [][LookupNext]_vars

(***************************************************************************)
(* PaintSpec: a TextArea is built by push and push_text, set_textarea      *)
(* makes it the one Text element of the writer, and paint_text paints it.  *)
(* process_text, which builds the element, resolves the TextArea with the  *)
(* element's font and takes the lines from the layout; the element's text  *)
(* is the TextArea's string, or a longer text.  The draw calls of this     *)
(* specification succeed; GenSpec has the failing ones.                    *)
(***************************************************************************)
PaintAlphabet == {"a", "e"}

PPush ==
    /\ tree = << >>
    /\ last \in {"new", "push", "push_text"}
    /\ PushOf(PaintAlphabet, {"none", "valid"})

PPushText ==
    /\ tree = << >>
    /\ last \in {"new", "push", "push_text"}
    /\ PushTextOf(PaintAlphabet)

\* the texts of a Text element built on a TextArea
ElementTexts(ta) ==
    {TextArea_as_string(ta)}
        \cup IF CharCount(ta) < MaxChars
             THEN {TextArea_as_string(ta) \o <<"a">>} ELSE {}

\* OGImageWriter::set_textarea
SetTextarea ==
    /\ tree = << >>
    /\ last \in {"new", "push", "push_text"}
    /\ \E r \in {TextArea_set_glyphs(textarea, "parent")} :
           /\ err' = r.err
           /\ IF r.err # "Ok" THEN tree' = tree
              ELSE \E text \in ElementTexts(r.ta) :
                      \E lines \in LinesFrom(text, 0, 1, MaxLines) :
                          tree' = <<TextElement(Text(text, lines, r.ta))>>
    /\ textarea' = << >>
    /\ resolved' = << >>
    /\ appended' = << >>
    /\ last' = "set_textarea"
    /\ UNCHANGED <<measured, calls, text_elm, pc, saved>>

\* OGImageWriter::paint_text on the element of the tree
PaintText ==
    /\ last = "set_textarea"
    /\ tree # << >>
    /\ \E e \in {tree[Len(tree)]} :
          \E r \in {paint_text(e.text, 0)} :
              /\ calls' = calls \o r.calls
              /\ err' = r.err
              /\ text_elm' = e.text
    /\ tree' = SubSeq(tree, 1, Len(tree) - 1)
    /\ last' = "paint_text"
    /\ UNCHANGED <<areaVars, pc, saved>>

PaintNext == PPush \/ PPushText \/ SetTextarea \/ PaintText

PaintSpec == Init /\ [][PaintNext]_vars

(***************************************************************************)
(* GenSpec: elements are set on the writer and generate paints and saves.  *)
(***************************************************************************)
\* the texts given to set_text
GenTexts == {t \in AllTexts : Len(t) >= 1 /\ \A n \in 1..Len(t) : t[n] = "a"}

\* the lines of a text: one line, or one line for each character
GenLines(text) ==
    {<<Line(Range(0, StrLen(text)), 1)>>,
     [k \in 1..Len(text) |->
         Line(Range(CharOffset(text, k), CharOffset(text, k + 1)), k)]}

\* OGImageWriter::set_text
SetText ==
    /\ pc = "build"
    /\ Len(tree) < MaxElems
    /\ \E text \in GenTexts :
          \E r \in {TextArea_set_glyphs(TextArea_push_text(<< >>, text), "parent")} :
              /\ err' = r.err
              /\ IF r.err # "Ok" THEN tree' = tree
                 ELSE \E lines \in GenLines(text) :
                         tree' = Append(tree, TextElement(Text(text, lines, r.ta)))
    /\ UNCHANGED <<areaVars, last, calls, text_elm, pc, saved>>

\* OGImageWriter::set_img
SetImg ==
    /\ pc = "build"
    /\ Len(tree) < MaxElems
    /\ tree' = Append(tree, ImgElement([rect |-> Rect(0, Len(tree))]))
    /\ err' = "Ok"
    /\ UNCHANGED <<areaVars, last, calls, text_elm, pc, saved>>

\* an element without content enters the tree
SetNull ==
    /\ pc = "build"
    /\ Len(tree) < MaxElems
    /\ tree' = Append(tree, NullElement)
    /\ err' = "Ok"
    /\ UNCHANGED <<areaVars, last, calls, text_elm, pc, saved>>

\* OGImageWriter::generate is called: paint starts
Generate ==
    /\ pc = "build"
    /\ pc' = AfterPaint("Ok", tree)
    /\ err' = "Ok"
    /\ UNCHANGED <<areaVars, last, tree, calls, text_elm, saved>>

\* one turn of `while let Some(elm) = self.tree.pop()`
PaintStep ==
    /\ pc = "paint"
    /\ LET e == tree[Len(tree)]
           rest == SubSeq(tree, 1, Len(tree) - 1)
       IN  /\ \E fail_at \in 0..Len(PaintElement(e, 0).calls) :
                 \E r \in {PaintElement(e, fail_at)} :
                     /\ calls' = calls \o r.calls
                     /\ err' = r.err
                     /\ pc' = AfterPaint(r.err, rest)
           /\ tree' = rest
           /\ text_elm' = IF e.kind = "Text" /\ e.some THEN e.text ELSE text_elm
    /\ UNCHANGED <<areaVars, last, saved>>

\* self.context.save(dest)
Save ==
    /\ pc = "save"
    /\ saved' = TRUE
    /\ \E e \in {"Ok", "ImageError"} : err' = e
    /\ pc' = "done"
    /\ UNCHANGED <<areaVars, last, tree, calls, text_elm>>

GenNext == SetText \/ SetImg \/ SetNull \/ Generate \/ PaintStep \/ Save

GenSpec == Init /\ [][GenNext]_vars

(***************************************************************************)
(* Properties of the TextArea operations.                                  *)
(***************************************************************************)
Frags == 1..Len(textarea)

\* the paragraph byte range of character number n of fragment i
CharRange(i, n) ==
    Range(textarea[i].range.start + CharOffset(textarea[i].text, n),
          textarea[i].range.start + CharOffset(textarea[i].text, n + 1))

\* the runs of a fragment that cover a byte range
Covering(f, range) ==
    {g \in 1..Len(f.glyphs) :
        /\ f.glyphs[g].range.start <= range.start
        /\ range.end <= f.glyphs[g].range.end}

\* the runs of a fragment partition its range
Partitions(f) ==
    LET g == f.glyphs
    IN  /\ \A k \in 1..Len(g) : g[k].range.start < g[k].range.end
        /\ \A k \in 1..(Len(g) - 1) : g[k + 1].range.start = g[k].range.end
        /\ IF Len(g) = 0 THEN f.range.start = f.range.end
           ELSE /\ g[1].range.start = f.range.start
                /\ g[Len(g)].range.end = f.range.end

\* C1: the glyph runs of a fragment that set_glyphs has resolved once (in a
\* TextArea::set_glyphs or in push_text_with_glyphs) partition the fragment's
\* byte range, in order: the first run starts at range.start, each run starts
\* where the one before it ends, the last ends at range.end, no run is empty,
\* and an empty fragment has no run.
C1_RunsPartitionRange ==
    \A i \in Frags : resolved[i] = 1 => Partitions(textarea[i])

\* two fragments resolved by one TextArea::set_glyphs, the second one not
\* empty and not at offset 0, after a first one that got a run
C1_Witness ==
    /\ last = "set_glyphs" /\ err = "Ok"
    /\ Len(textarea) = 2
    /\ resolved = <<1, 1>>
    /\ Len(textarea[1].glyphs) = 1
    /\ Len(textarea[2].glyphs) = 1
    /\ textarea[2].glyphs[1].range.start > 0

\* C2: in a fragment resolved once, two adjacent runs never have the same
\* FontIndexStore (Child, Parent, or Global with its handle).
C2_AdjacentRunsDiffer ==
    \A i \in Frags :
        resolved[i] = 1 =>
            \A k \in 1..(Len(textarea[i].glyphs) - 1) :
                textarea[i].glyphs[k].font_index_store
                    # textarea[i].glyphs[k + 1].font_index_store

\* a fragment resolved once into two runs that are both Global
C2_Witness ==
    \E i \in Frags :
        /\ resolved[i] = 1
        /\ Len(textarea[i].glyphs) = 2
        /\ textarea[i].glyphs[1].font_index_store.kind = "Global"
        /\ textarea[i].glyphs[2].font_index_store.kind = "Global"

\* the tier the priority Child > Parent > Global gives a character
PriorityTier(ch, font) ==
    IF font # "none" /\ ch \in Coverage(font) THEN Child(0)
    ELSE IF ch \in Coverage("parent") THEN Parent(0)
    ELSE Global(select_font_family(ch).idx)

\* C3: in a fragment resolved once, every character is covered by a run, and
\* the run carries the tier of the priority Child > Parent > Global.
C3_TierByPriority ==
    \A i \in Frags :
        resolved[i] = 1 =>
            \A n \in 1..Len(textarea[i].text) :
                /\ Covering(textarea[i], CharRange(i, n)) # {}
                /\ \A g \in Covering(textarea[i], CharRange(i, n)) :
                      textarea[i].glyphs[g].font_index_store
                          = PriorityTier(textarea[i].text[n], textarea[i].font)

\* a fragment with a font of its own, resolved once, holding a character
\* that its font, the parent font and a fallback all have
C3_Witness ==
    \E i \in Frags :
        /\ resolved[i] = 1
        /\ textarea[i].font = "child"
        /\ \E n \in 1..Len(textarea[i].text) :
              /\ textarea[i].text[n] = "a"
              /\ \E g \in Covering(textarea[i], CharRange(i, n)) :
                    textarea[i].glyphs[g].font_index_store = Child(0)

\* the byte length of the paragraph
Total == StrLen(TextArea_as_string(textarea))

\* a range that reaches over the end of a fragment, or starts at or after
\* the end of the last one
CrossesOrOutside(range) ==
    \/ \E i \in Frags :
          /\ range.start < textarea[i].range.end
          /\ textarea[i].range.end < range.end
    \/ range.start >= Total

AllRanges == {r \in {Range(s, e) : s \in 0..(Total + 1), e \in 0..(Total + 1)} :
                 r.start < r.end}

\* C4: on a TextArea whose fragments are all resolved once, the lookup of the
\* byte range of any character returns the fragment that holds the character
\* and a run of it that contains the range; the lookup of a range that
\* crosses a fragment boundary or lies outside all fragments finds nothing,
\* and char_extents over such a range returns OutOfRangeText.
C4_Lookup ==
    (\A i \in Frags : resolved[i] = 1) =>
        /\ \A i \in Frags : \A n \in 1..Len(textarea[i].text) :
              LET hit == TextArea_get_glyphs_from_char_range(textarea, CharRange(i, n))
              IN  /\ hit.split = i
                  /\ hit.glyph \in Covering(textarea[i], CharRange(i, n))
        /\ \A r \in AllRanges :
              CrossesOrOutside(r) =>
                  /\ TextArea_get_glyphs_from_char_range(textarea, r)
                        = [split |-> 0, glyph |-> 0]
                  /\ TextArea_char_extents(textarea, "a", "parent", r, "default").err
                        = "OutOfRangeText"
        /\ last = "char_extents" =>
              /\ CrossesOrOutside(measured.range) => err = "OutOfRangeText"
              /\ (\E i \in Frags : \E n \in 1..Len(textarea[i].text) :
                     measured.range = CharRange(i, n)) => err = "Ok"

\* char_extents was asked for a range over the boundary of two resolved
\* fragments, both not empty
C4_Witness ==
    /\ last = "char_extents"
    /\ Len(textarea) = 2
    /\ resolved = <<1, 1>>
    /\ measured.range.start < textarea[1].range.end
    /\ textarea[1].range.end < measured.range.end
    /\ measured.range.end <= textarea[2].range.end
    /\ err = "OutOfRangeText"

\* C5: the fragment ranges start at 0 and are contiguous, the length of each
\* range is the byte length of its text, as_string() is the concatenation of
\* the texts of the successful appends, and its bytes over a fragment's range
\* are the bytes of the fragment's text.
C5_RangesAndString ==
    /\ \A i \in Frags :
          /\ textarea[i].range.start = IF i = 1 THEN 0 ELSE textarea[i - 1].range.end
          /\ textarea[i].range.end - textarea[i].range.start = StrLen(textarea[i].text)
          /\ SubSeq(Bytes(TextArea_as_string(textarea)),
                    textarea[i].range.start + 1, textarea[i].range.end)
                = Bytes(textarea[i].text)
    /\ TextArea_as_string(textarea) = appended

\* a push that failed on its font bytes, after an append of a text with a
\* character of more than one byte
C5_Witness ==
    /\ last = "push" /\ err = "InvalidFontBytes"
    /\ Len(textarea) = 1
    /\ textarea[1].range = Range(0, 4)

\* no font of the fragment, the parent or the resolver has the character
Unsupported(ch, font) ==
    /\ ~(font # "none" /\ ch \in Coverage(font))
    /\ ch \notin Coverage("parent")
    /\ \A h \in Handles : ch \notin Coverage(GlobalFont(h))

\* C6: TextArea::set_glyphs returns NoMatchingFontFamily exactly when some
\* fragment holds a character that neither the fragment's font nor the
\* parent font nor any fallback has, and Ok otherwise; push_text_with_glyphs
\* does so for its text; and no run carries a store other than Child, Parent
\* or Global.
C6_NoMatchingFontFamily ==
    /\ last = "set_glyphs" =>
          /\ err \in {"Ok", "NoMatchingFontFamily"}
          /\ err = "NoMatchingFontFamily" <=>
                \E i \in Frags : \E n \in 1..Len(textarea[i].text) :
                    Unsupported(textarea[i].text[n], textarea[i].font)
    /\ \A text \in Room(Chars) :
          Len(textarea) < MaxFrags =>
              LET r == TextArea_push_text_with_glyphs(textarea, text, "parent")
              IN  /\ r.err \in {"Ok", "NoMatchingFontFamily"}
                  /\ r.err = "NoMatchingFontFamily" <=>
                        \E n \in 1..Len(text) : Unsupported(text[n], "none")
    /\ \A i \in Frags : \A g \in 1..Len(textarea[i].glyphs) :
          textarea[i].glyphs[g].font_index_store.kind \in {"Child", "Parent", "Global"}

\* TextArea::set_glyphs failed on the second fragment after resolving the
\* first one
C6_Witness ==
    /\ last = "set_glyphs" /\ err = "NoMatchingFontFamily"
    /\ Len(textarea) = 2
    /\ resolved[1] = 1 /\ resolved[2] = 0
    /\ Len(textarea[1].glyphs) = 1

\* the font of a tier: the fallback of the handle for Global, the parent font
\* for Parent, the fragment's own font for Child
FontOfStore(store, i) ==
    CASE store.kind = "Global" -> GlobalFont(store.idx)
      [] store.kind = "Parent" -> "parent"
      [] OTHER                 -> textarea[i].font

\* C11: a char_extents call that returns Ok over a range measured the
\* character with the font of the tier of the run that covers the range
\* (the fallback of the handle for Global, the caller's parent font for
\* Parent, the fragment's own font for Child) and with the font size of the
\* fragment's style when the fragment has one, else of the supplied style.
C11_MeasuredByTier ==
    (last = "char_extents" /\ err = "Ok") =>
        /\ \E i \in Frags : Covering(textarea[i], measured.range) # {}
        /\ \A i \in Frags : \A g \in Covering(textarea[i], measured.range) :
              /\ measured.res.font
                    = FontOfStore(textarea[i].glyphs[g].font_index_store, i)
              /\ measured.res.font_size
                    = IF textarea[i].style # "none"
                      THEN FontSize(textarea[i].style) ELSE FontSize("default")
              /\ measured.res.ch
                    = CharAt(TextArea_as_string(textarea), measured.range.start)

\* a character measured in a fallback font at the size of its fragment's
\* style, which is not the size of the supplied style
C11_Witness ==
    /\ last = "char_extents" /\ err = "Ok"
    /\ measured.res.font = "g2"
    /\ measured.res.font_size = FontSize("s1")
    /\ FontSize("s1") # FontSize("default")
    /\ \E i \in Frags : /\ textarea[i].style = "s1"
                         /\ Covering(textarea[i], measured.range) # {}

\* C12: SplitText::set_glyphs never returns NotFoundSpecifiedFontFamily (the
\* return of the branch that closes a run when no previous store is
\* recorded): no operation ends with that error, and a TextArea::set_glyphs
\* or a push_text_with_glyphs ends with Ok or with NoMatchingFontFamily,
\* the error of select_font_family, which for TextArea::set_glyphs means
\* that a fragment holds a character no fallback has.
C12_NoResolutionMissing ==
    /\ err # "NotFoundSpecifiedFontFamily"
    /\ last \in {"set_glyphs", "push_text_with_glyphs"} =>
          err \in {"Ok", "NoMatchingFontFamily"}
    /\ (last = "set_glyphs" /\ err = "NoMatchingFontFamily") =>
          \E i \in Frags : \E n \in 1..Len(textarea[i].text) :
              select_font_family(textarea[i].text[n]).err = "NoMatchingFontFamily"

\* a TextArea::set_glyphs closed a Parent run inside the loop of a fragment
\* and went on with a Global run
C12_Witness ==
    /\ last = "set_glyphs" /\ err = "Ok"
    /\ \E i \in Frags :
          /\ resolved[i] = 1
          /\ Len(textarea[i].glyphs) = 2
          /\ textarea[i].glyphs[1].font_index_store.kind = "Parent"
          /\ textarea[i].glyphs[2].font_index_store.kind = "Global"

C17_ChildRunHasFont ==
    /\ \A i \in Frags : \A g \in 1..Len(textarea[i].glyphs) :
          textarea[i].glyphs[g].font_index_store.kind = "Child" =>
              textarea[i].font # "none"
    /\ last = "char_extents" => err \in {"Ok", "OutOfRangeText"}

\* char_extents measured a character of a Child run in the fragment's own
\* font, in a TextArea that also has a fragment without font
C17_Witness ==
    /\ last = "char_extents" /\ err = "Ok"
    /\ measured.res.font = "child"
    /\ \E i \in Frags :
          /\ textarea[i].font = "child"
          /\ \E g \in Covering(textarea[i], measured.range) :
                textarea[i].glyphs[g].font_index_store.kind = "Child"
    /\ \E i \in Frags : textarea[i].font = "none" /\ textarea[i].glyphs # << >>

\* the fragment a TextArea::set_glyphs fails on: the first one that holds a
\* character no font has
FailsOn(k) ==
    /\ \E n \in 1..Len(textarea[k].text) :
          Unsupported(textarea[k].text[n], textarea[k].font)
    /\ \A i \in 1..(k - 1) : \A n \in 1..Len(textarea[i].text) :
          ~Unsupported(textarea[i].text[n], textarea[i].font)

\* a step is a TextArea::set_glyphs that fails
FailedSetGlyphs == last' = "set_glyphs" /\ err' # "Ok"

\* a step changes no fragment but for its runs, and keeps their number
OnlyRunsChange ==
    /\ Len(textarea') = Len(textarea)
    /\ \A i \in Frags :
          [textarea'[i] EXCEPT !.glyphs = << >>]
              = [textarea[i] EXCEPT !.glyphs = << >>]

AppendStep == last' \in {"push", "push_text", "push_text_with_glyphs"}

\* C19: an append that fails leaves the TextArea as it was: a push fails
\* only with InvalidFontBytes, a push_text_with_glyphs only with the
\* resolver's NoMatchingFontFamily, a push_text never, and after a failure
\* no fragment is added or changed.  An append that succeeds adds one
\* fragment at the end and changes none of the fragments already present.
C19_AppendFrame ==
    [][AppendStep =>
          /\ err' # "Ok" =>
                /\ textarea' = textarea
                /\ last' # "push_text"
                /\ last' = "push" => err' = "InvalidFontBytes"
                /\ last' = "push_text_with_glyphs" => err' = "NoMatchingFontFamily"
          /\ err' = "Ok" =>
                /\ Len(textarea') = Len(textarea) + 1
                /\ SubSeq(textarea', 1, Len(textarea)) = textarea]_vars

\* a push_text_with_glyphs failed on a TextArea that holds one resolved
\* fragment with a run
C19_Witness ==
    /\ last = "push_text_with_glyphs" /\ err = "NoMatchingFontFamily"
    /\ Len(textarea) = 1
    /\ resolved = <<1>>
    /\ Len(textarea[1].glyphs) = 1

(***************************************************************************)
(* Properties of paint_text, on the element it was last called with.       *)
(***************************************************************************)
Lines == 1..Len(text_elm.lines)

\* the text of line k and the numbers of its characters
LineText(k) == Slice(text_elm.text, text_elm.lines[k].range)
LineChars(k) == 1..Len(LineText(k))

\* the paragraph byte range of character n of line k
AbsRange(k, n) ==
    Range(text_elm.lines[k].range.start + CharOffset(LineText(k), n),
          text_elm.lines[k].range.start + CharOffset(LineText(k), n + 1))

\* the fragments whose range contains a byte range
Owners(range) ==
    {i \in 1..Len(text_elm.textarea) :
        /\ text_elm.textarea[i].range.start <= range.start
        /\ range.end <= text_elm.textarea[i].range.end}

\* the draw call covers character n of line k
Covers(c, k, n) ==
    /\ c.line = k
    /\ c.from <= AbsRange(k, n).start
    /\ AbsRange(k, n).end <= c.to

\* the element's text is the string of its TextArea
Consistent == text_elm.text = TextArea_as_string(text_elm.textarea)

\* C7: if a character of a line lies in no fragment, paint_text fails with
\* an out-of-bounds error and has made no draw call for that character or
\* for a later one.
C7_AbortOnUnlocated ==
    last = "paint_text" =>
        \A k \in Lines : \A n \in LineChars(k) :
            Owners(AbsRange(k, n)) = {} =>
                /\ err # "Ok"
                /\ \A j \in 1..Len(calls) :
                      /\ ~Covers(calls[j], k, n)
                      /\ calls[j].line <= k
                      /\ \A m \in LineChars(k) : m > n => ~Covers(calls[j], k, m)

\* the font of the tier of run g of fragment i
TierFont(i, g) ==
    LET store == text_elm.textarea[i].glyphs[g].font_index_store
    IN  CASE store.kind = "Child" -> text_elm.textarea[i].font
          [] store.kind = "Parent" -> text_elm.font
          [] OTHER -> GlobalFont(store.idx)

\* C8: on an element whose text is its TextArea's string, every draw call
\* with a text covers bytes of one resolved run, and its font is the font of
\* that run's tier.
C8_DrawsFollowRuns ==
    (last = "paint_text" /\ Consistent) =>
        \A j \in 1..Len(calls) :
            calls[j].from < calls[j].to =>
                \E i \in 1..Len(text_elm.textarea) :
                    \E g \in 1..Len(text_elm.textarea[i].glyphs) :
                        /\ text_elm.textarea[i].glyphs[g].range.start <= calls[j].from
                        /\ calls[j].to <= text_elm.textarea[i].glyphs[g].range.end
                        /\ calls[j].font = TierFont(i, g)

\* the fragment that owns character n of line k of a consistent element
Owner(k, n) == CHOOSE i \in Owners(AbsRange(k, n)) : TRUE

\* the least number of draw calls for line k: none for an empty line, else
\* one more than the places where the fragment changes inside the line
LeastCalls(k) ==
    IF LineChars(k) = {} THEN 0
    ELSE 1 + Cardinality({n \in LineChars(k) :
                             n + 1 \in LineChars(k) /\ Owner(k, n) # Owner(k, n + 1)})

\* C9: on an element whose text is its TextArea's string, a successful
\* paint_text makes for every line the least number of draw calls, and no
\* draw call has an empty text.
C9_LeastDrawCalls ==
    (last = "paint_text" /\ Consistent /\ err = "Ok") =>
        /\ \A k \in Lines :
              Cardinality({j \in 1..Len(calls) : calls[j].line = k}) = LeastCalls(k)
        /\ \A j \in 1..Len(calls) : calls[j].text # << >>

\* the texts of the first j draw calls that were made for line k, in order
RECURSIVE DrawnText(_, _)
DrawnText(k, j) ==
    IF j = 0 THEN << >>
    ELSE DrawnText(k, j - 1) \o (IF calls[j].line = k THEN calls[j].text ELSE << >>)

\* C14: after a successful paint_text, for every line the texts of the
\* line's draw calls, concatenated in call order, are the line's text, and
\* each call draws the bytes that follow those of the line's earlier calls:
\* every byte of the line is drawn once, in order, the last ones by the flush.
C14_LineDrawnOnce ==
    (last = "paint_text" /\ err = "Ok") =>
        /\ \A k \in Lines : DrawnText(k, Len(calls)) = LineText(k)
        /\ \A j \in 1..Len(calls) :
              /\ calls[j].line \in Lines
              /\ calls[j].from = text_elm.lines[calls[j].line].range.start
                                    + StrLen(DrawnText(calls[j].line, j - 1))
              /\ calls[j].to = calls[j].from + StrLen(calls[j].text)

\* a text of two lines, each with a character, was painted in three calls:
\* one with a text for each line and one with an empty text
C14_Witness ==
    /\ last = "paint_text" /\ err = "Ok"
    /\ Len(text_elm.lines) = 2
    /\ LineText(1) # << >> /\ LineText(2) # << >>
    /\ Len(calls) = 3
    /\ \E j \in 1..Len(calls) : calls[j].text = << >>

\* the widths of the first j draw calls that were made for line k, each
\* measured with the font size and the font of the call, added up
RECURSIVE DrawnWidth(_, _)
DrawnWidth(k, j) ==
    IF j = 0 THEN 0
    ELSE DrawnWidth(k, j - 1)
            + (IF calls[j].line = k
               THEN text_extents_width(calls[j].text, calls[j].font_size,
                                       calls[j].font)
               ELSE 0)

\* C15: every draw call of paint_text is made at the y of its line's
\* rectangle and at the x of the rectangle plus the widths of the texts the
\* earlier calls of the same line drew, each measured with the font size
\* and the font it was drawn with; the calls of other lines do not count.
C15_DrawPosition ==
    last = "paint_text" =>
        \A j \in 1..Len(calls) :
            /\ calls[j].line \in Lines
            /\ calls[j].y = text_elm.lines[calls[j].line].rect.y
            /\ calls[j].x = text_elm.lines[calls[j].line].rect.x
                               + DrawnWidth(calls[j].line, j - 1)

\* a line was drawn in two calls, the first in a fragment's own font and
\* size, the second to the right of it by the width measured with these
C15_Witness ==
    /\ last = "paint_text" /\ err = "Ok"
    /\ \E i, j \in 1..Len(calls) :
          /\ i < j
          /\ calls[i].line = calls[j].line
          /\ calls[i].font = "child" /\ calls[i].font_size = FontSize("s1")
          /\ calls[i].text # << >> /\ calls[j].text # << >>
          /\ calls[j].x = calls[i].x
                            + text_extents_width(calls[i].text, FontSize("s1"), "child")
          /\ text_extents_width(calls[i].text, FontSize("s1"), "child")
                # text_extents_width(calls[i].text, FontSize("default"), "parent")

\* the style fragment i of the element is drawn with: its own, else the
\* element's
StyleOf(i) ==
    IF text_elm.textarea[i].style # "none"
    THEN text_elm.textarea[i].style ELSE text_elm.style

\* draw call j, if it has a text, draws bytes of one fragment only, in the
\* colour and the font size of that fragment's style when the fragment has
\* one and of the element's style otherwise
SegmentStyle(j) ==
    calls[j].text # << >> =>
        \E i \in 1..Len(text_elm.textarea) :
            /\ text_elm.textarea[i].range.start <= calls[j].from
            /\ calls[j].to <= text_elm.textarea[i].range.end
            /\ calls[j].color = Color(StyleOf(i))
            /\ calls[j].font_size = FontSize(StyleOf(i))

C10_SaveOnlyAfterPaint ==
    /\ saved => /\ tree = << >>
                /\ pc = "done"
                /\ \A j \in 1..Len(calls) : calls[j].ok
    /\ \A j \in 1..Len(calls) :
          ~calls[j].ok => /\ j = Len(calls)
                          /\ pc = "done" /\ err = "DrawError" /\ ~saved
    /\ (pc \in {"paint", "save"}) => err = "Ok"
    /\ (pc = "done" /\ ~saved) => err \in {"DrawError", "NullElement"}
    /\ err = "NullElement" => pc = "done" /\ ~saved

\* generate ended on a failed draw call after a call that succeeded, with
\* an element still in the tree and nothing saved
C10_Witness ==
    /\ pc = "done" /\ err = "DrawError" /\ ~saved
    /\ Len(calls) >= 2
    /\ calls[1].ok /\ ~calls[Len(calls)].ok
    /\ tree # << >>

====
